---------------------------- MODULE Spec2Model ----------------------------
(***************************************************************************)
(* Model of src/seg_buffer/raw.rs: RawBuffer, a segmented multi-producer / *)
(* single-consumer buffer.  Segments live in the sequence segs, in the     *)
(* order new_segment allocated them; a pointer is an index into segs and   *)
(* 0 is the null pointer.  A slot of a segment's array holds 0 while it is *)
(* uninitialised, v > 0 while it holds the written, unread value v, and    *)
(* -v once v has been moved out of it by ptr::read.                        *)
(*                                                                         *)
(* push is modelled one atomic memory operation per action, for every      *)
(* producer of Procs.  pop and drop take &mut self: they run with no push  *)
(* in progress and are one action each.  The atomic operations are taken   *)
(* in one total order (the orderings are Acquire and AcqRel on single      *)
(* locations; the slot writes are read only after the caller's             *)
(* synchronisation between the push phase and the consumer).               *)
(*                                                                         *)
(* STARTING_SIZE and MAX_SIZE are 64 and 262144 in the source; the model   *)
(* scales them down.  The code uses them only in new_segment's argument    *)
(* and, through capacity, in comparisons with the cursors.                 *)
(***************************************************************************)
EXTENDS Integers, Sequences, FiniteSets, TLC

\* raw.rs:8 (scaled)
STARTING_SIZE == 1
\* raw.rs:10 (scaled)
MAX_SIZE == 3

\* total number of push calls in a behaviour of Spec
MaxPush == 5
\* total number of push calls in a behaviour of SpecSeq
MaxPushSeq == 12
\* total number of push calls in a behaviour of SpecProd
MaxPushProd == 4
\* total number of push calls in a behaviour of SpecIter
MaxPushIter == 4
\* number of split calls the engine makes in one parallel iteration
MaxSplit == 2

Procs == {"p1", "p2"}
SeqProcs == {"p1"}

VARIABLES
    segs,       \* the allocated segments, in allocation order
    head,       \* RawBuffer::head
    tail,       \* RawBuffer::tail
    pc,         \* per producer: its position in push
    val,        \* per producer: push's argument `value`
    h,          \* per producer: push's local `head`
    pos,        \* per producer: push's local `position`
    nxt,        \* per producer: push's local `next`
    newseg,     \* per producer: push's local `new_segment`
    ah,         \* per producer: append_segment's local `head`
    nvals,      \* number of push calls begun; the i-th call pushes value i
    reserved,   \* history: the values in the order of their in-capacity fetch_add
    granted,    \* history: per segment, the positions its fetch_adds returned since its last reset
    out,        \* history: the values pop returned, in order
    lastPop,    \* "nopop", or the outcome of a pop that no push has followed: "none" / "some"
    recycles,   \* history: per segment, how often pop reset its cursors
    raced,      \* history: a producer's compare_and_swap in append_segment has failed
    pusher,     \* history: pusher[v] is the producer whose push call pushes value v
    othersAdvanced, \* history, per producer: another producer advanced head since this one loaded it
    otherLinked,    \* history, per producer: another thread linked a segment since this one read next = null
    dropped,    \* the buffer has been dropped
    destructed, \* the slot contents Segment::drop destructed, in order
    freed,      \* the segments RawBuffer::drop freed, in order
    fault,      \* a null dereference, a use after free, a panic or a loop that never ends happened
    popExit,    \* history: how the pop that no push has followed left its loop
    itMode,     \* "none", or the iterator that borrows the buffer: "seq" / "par"
    itSeg,      \* RawIter::segment
    slices,     \* the slices the iterator has yielded, in order
    units,      \* per segment: the ParRawIter units the engine holds that point to it
    nsplit      \* number of ParRawIter::split calls of the current parallel iteration

vars == <<segs, head, tail, pc, val, h, pos, nxt, newseg, ah, nvals, reserved,
          granted, out, lastPop, recycles, raced, pusher, othersAdvanced,
          otherLinked, dropped, destructed, freed, fault, popExit, itMode,
          itSeg, slices, units, nsplit>>

itVars == <<itMode, itSeg, slices, units, nsplit>>

Min(a, b) == IF a <= b THEN a ELSE b

\* new_segment
NewSegment(capacity) ==
    [next |-> 0, capacity |-> capacity, front |-> 0, back |-> 0,
     array |-> [i \in 1..capacity |-> 0]]

Init ==
    /\ segs = <<NewSegment(STARTING_SIZE)>>
    /\ head = 1
    /\ tail = 1
    /\ pc = [p \in Procs |-> "idle"]
    /\ val = [p \in Procs |-> 0]
    /\ h = [p \in Procs |-> 0]
    /\ pos = [p \in Procs |-> 0]
    /\ nxt = [p \in Procs |-> 0]
    /\ newseg = [p \in Procs |-> 0]
    /\ ah = [p \in Procs |-> 0]
    /\ nvals = 0
    /\ reserved = <<>>
    /\ granted = <<<<>>>>
    /\ out = <<>>
    /\ lastPop = "nopop"
    /\ recycles = <<0>>
    /\ raced = FALSE
    /\ pusher = <<>>
    /\ othersAdvanced = [p \in Procs |-> FALSE]
    /\ otherLinked = [p \in Procs |-> FALSE]
    /\ dropped = FALSE
    /\ destructed = <<>>
    /\ freed = <<>>
    /\ fault = FALSE
    /\ popExit = "nopop"
    /\ itMode = "none"
    /\ itSeg = 0
    /\ slices = <<>>
    /\ units = <<0>>
    /\ nsplit = 0

Quiescent == \A p \in Procs : pc[p] = "idle"
Alive == ~dropped /\ ~fault


(***************************************************************************)
(* push, raw.rs:80-114, one action per memory operation.                   *)
(***************************************************************************)

\* the caller enters push(value); the i-th call of a behaviour pushes i
BeginPush(p, limit) ==
    /\ Alive
    /\ pc[p] = "idle"
    /\ nvals < limit
    /\ nvals' = nvals + 1
    /\ val' = [val EXCEPT ![p] = nvals + 1]
    /\ pc' = [pc EXCEPT ![p] = "load_head"]
    /\ lastPop' = "nopop"
    /\ pusher' = Append(pusher, p)
    /\ popExit' = "nopop"
    /\ UNCHANGED <<segs, head, tail, h, pos, nxt, newseg, ah, reserved,
                   granted, out, othersAdvanced, otherLinked, dropped,
                   destructed, freed, fault, recycles, raced,
                   itVars>>

\* raw.rs:83  let head = &mut *self.head.load(Acquire)
LoadHead(p) ==
    /\ pc[p] = "load_head"
    /\ h' = [h EXCEPT ![p] = head]
    /\ pc' = [pc EXCEPT ![p] = "fetch_add"]
    /\ othersAdvanced' = [othersAdvanced EXCEPT ![p] = FALSE]
    /\ UNCHANGED <<segs, head, tail, val, pos, nxt, newseg, ah, nvals,
                   reserved, granted, out, lastPop, otherLinked, dropped,
                   destructed, freed, fault, recycles, raced, pusher,
                   popExit, itVars>>

\* mutant of FetchAddStore: the cursor is read but not advanced
FetchAddStoreSame(front) == front

\* the value fetch_add(1) stores back, raw.rs:85
FetchAddStore(front) == front + 1

\* raw.rs:87  position < head.capacity
InCapacity(position, capacity) == position < capacity

\* raw.rs:85-89  position = head.front.fetch_add(1); break if in capacity
FetchAdd(p) ==
    /\ pc[p] = "fetch_add"
    /\ LET position == segs[h[p]].front IN
       /\ segs' = [segs EXCEPT ![h[p]].front = FetchAddStore(position)]
       /\ granted' = [granted EXCEPT ![h[p]] = Append(@, position)]
       /\ IF InCapacity(position, segs[h[p]].capacity)
          THEN /\ pos' = [pos EXCEPT ![p] = position]
               /\ pc' = [pc EXCEPT ![p] = "write"]
               /\ reserved' = Append(reserved, val[p])
          ELSE /\ pc' = [pc EXCEPT ![p] = "load_next"]
               /\ UNCHANGED <<pos, reserved>>
    /\ othersAdvanced' = [othersAdvanced EXCEPT ![p] =
           IF InCapacity(segs[h[p]].front, segs[h[p]].capacity) THEN FALSE ELSE @]
    /\ UNCHANGED <<head, tail, val, h, nxt, newseg, ah, nvals, out, lastPop,
                   otherLinked, dropped, destructed, freed, fault, recycles,
                   raced, pusher,
                   popExit, itVars>>

\* raw.rs:97-98  next = head.next.load(Acquire); if !next.is_null()
LoadNext(p) ==
    /\ pc[p] = "load_next"
    /\ LET next == segs[h[p]].next IN
       /\ nxt' = [nxt EXCEPT ![p] = next]
       /\ pc' = [pc EXCEPT ![p] = IF next # 0 THEN "cas_head" ELSE "alloc"]
       /\ otherLinked' = [otherLinked EXCEPT ![p] = FALSE]
       /\ othersAdvanced' = [othersAdvanced EXCEPT ![p] = IF next # 0 THEN @ ELSE FALSE]
    /\ UNCHANGED <<segs, head, tail, val, h, pos, newseg, ah, nvals, reserved,
                   granted, out, lastPop, dropped, destructed, freed, fault,
                   recycles, raced, pusher,
                   popExit, itVars>>

\* mutant of CasHeadResult: the compare_and_swap fails although head is as expected
CasHeadNever(current, expected, new) == current

\* raw.rs:99-100  self.head.compare_and_swap(head, next): the new self.head
CasHeadResult(current, expected, new) == IF current = expected THEN new ELSE current

\* raw.rs:99-100, then the loop goes round
CasHead(p) ==
    /\ pc[p] = "cas_head"
    /\ head' = CasHeadResult(head, h[p], nxt[p])
    /\ othersAdvanced' = [q \in Procs |->
           IF q = p THEN FALSE
           ELSE IF head' # head /\ pc[q] \in {"fetch_add", "load_next", "cas_head"}
                THEN TRUE ELSE othersAdvanced[q]]
    /\ pc' = [pc EXCEPT ![p] = "load_head"]
    /\ h' = [h EXCEPT ![p] = 0]
    /\ nxt' = [nxt EXCEPT ![p] = 0]
    /\ UNCHANGED <<segs, tail, val, pos, newseg, ah, nvals, reserved, granted,
                   out, lastPop, otherLinked, dropped, destructed, freed,
                   fault, recycles, raced, pusher,
                   popExit, itVars>>

\* mutant of GrowCapacity: the capacity doubles without the ceiling
GrowUncapped(capacity) == capacity * 2

\* raw.rs:103  min(MAX_SIZE, head.capacity * 2)
GrowCapacity(capacity) == Min(MAX_SIZE, capacity * 2)

\* raw.rs:103  let new_segment = new_segment(min(MAX_SIZE, head.capacity * 2))
Alloc(p) ==
    /\ pc[p] = "alloc"
    /\ segs' = Append(segs, NewSegment(GrowCapacity(segs[h[p]].capacity)))
    /\ granted' = Append(granted, <<>>)
    /\ recycles' = Append(recycles, 0)
    /\ units' = Append(units, 0)
    /\ newseg' = [newseg EXCEPT ![p] = Len(segs) + 1]
    /\ pc' = [pc EXCEPT ![p] = "append_load"]
    /\ UNCHANGED <<head, tail, val, h, pos, nxt, ah, nvals, reserved, out,
                   lastPop, othersAdvanced, otherLinked, dropped, destructed,
                   freed, fault, raced, pusher,
                   popExit, itMode, itSeg, slices, nsplit>>

\* raw.rs:179  let mut head = self.head.load(Acquire)
AppendLoad(p) ==
    /\ pc[p] = "append_load"
    /\ ah' = [ah EXCEPT ![p] = head]
    /\ pc' = [pc EXCEPT ![p] = "append_cas"]
    /\ UNCHANGED <<segs, head, tail, val, h, pos, nxt, newseg, nvals,
                   reserved, granted, out, lastPop, othersAdvanced,
                   otherLinked, dropped, destructed, freed, fault, recycles,
                   raced, pusher,
                   popExit, itVars>>

\* mutant of CasNext: a swap, which stores whatever the link held
CasNextStore(S, node, segment) == [S EXCEPT ![node].next = segment]

\* raw.rs:182-184  next.compare_and_swap(null, segment): the segments afterwards
CasNext(S, node, segment) ==
    IF S[node].next = 0 THEN [S EXCEPT ![node].next = segment] ELSE S

\* mutant of TraverseNext: the traversal stays on the segment whose link is taken
TraverseStay(node, next) == node

\* raw.rs:187  head = next: the traversal moves on to the successor it found
TraverseNext(node, next) == next

\* raw.rs:181-188  one round of append_segment's loop (head is never null here)
AppendCas(p) ==
    /\ pc[p] = "append_cas"
    /\ LET next == segs[ah[p]].next IN
       /\ segs' = CasNext(segs, ah[p], newseg[p])
       /\ IF next = 0
          THEN /\ pc' = [pc EXCEPT ![p] = "load_head"]
               /\ ah' = [ah EXCEPT ![p] = 0]
               /\ h' = [h EXCEPT ![p] = 0]
               /\ newseg' = [newseg EXCEPT ![p] = 0]
               /\ otherLinked' = [q \in Procs |->
                      IF q = p THEN FALSE
                      ELSE IF pc[q] \in {"alloc", "append_load", "append_cas"}
                           THEN TRUE ELSE otherLinked[q]]
               /\ raced' = raced
          ELSE /\ ah' = [ah EXCEPT ![p] = TraverseNext(ah[p], next)]
               /\ raced' = TRUE
               /\ UNCHANGED <<pc, h, newseg, otherLinked>>
    /\ UNCHANGED <<head, tail, val, pos, nxt, nvals, reserved, granted, out,
                   lastPop, othersAdvanced, dropped, destructed, freed, fault,
                   recycles, pusher,
                   popExit, itVars>>

\* mutant of WriteSlot: the value is not written
WriteSlotNowhere(array, index, value) == array

\* raw.rs:111-113  ptr::write(segment.array[index], value)
WriteSlot(array, index, value) == [array EXCEPT ![index + 1] = value]

\* raw.rs:111-113, and push returns
Write(p) ==
    /\ pc[p] = "write"
    /\ segs' = [segs EXCEPT ![h[p]].array = WriteSlot(@, pos[p], val[p])]
    /\ pc' = [pc EXCEPT ![p] = "idle"]
    /\ val' = [val EXCEPT ![p] = 0]
    /\ h' = [h EXCEPT ![p] = 0]
    /\ pos' = [pos EXCEPT ![p] = 0]
    /\ UNCHANGED <<head, tail, nxt, newseg, ah, nvals, reserved, granted, out,
                   lastPop, othersAdvanced, otherLinked, dropped, destructed,
                   freed, fault, recycles, raced, pusher,
                   popExit, itVars>>

\* one step of producer p inside push
PushStep(p) ==
    \/ LoadHead(p)
    \/ FetchAdd(p)
    \/ LoadNext(p)
    \/ CasHead(p)
    \/ Alloc(p)
    \/ AppendLoad(p)
    \/ AppendCas(p)
    \/ Write(p)


(***************************************************************************)
(* append_segment run by the consumer, which has the buffer to itself,     *)
(* raw.rs:177-189.  fuel bounds the walk: a walk that outlives the number  *)
(* of segments is in a cycle and would never end.                          *)
(***************************************************************************)
RECURSIVE AppendWalk(_, _, _, _)
AppendWalk(S, node, segment, fuel) ==
    IF node = 0 THEN [segs |-> S, diverged |-> FALSE]
    ELSE IF fuel = 0 THEN [segs |-> S, diverged |-> TRUE]
    ELSE IF S[node].next = 0
         THEN [segs |-> CasNext(S, node, segment), diverged |-> FALSE]
         ELSE AppendWalk(S, S[node].next, segment, fuel - 1)

\* mutant of AppendSegment: the segment is not linked anywhere
AppendNowhere(S, hd, segment) == [segs |-> S, diverged |-> FALSE]

\* mutant of AppendSegment: the segment is linked at the head without a walk
AppendAtHead(S, hd, segment) ==
    [segs |-> [S EXCEPT ![hd].next = segment], diverged |-> FALSE]

\* append_segment: the walk starts at self.head
AppendSegment(S, hd, segment) == AppendWalk(S, hd, segment, Len(S))

(***************************************************************************)
(* pop, raw.rs:120-150.                                                    *)
(***************************************************************************)

\* mutant of NothingToRead: the comparison is strict
NothingToReadOff(index, front) == index > front

\* raw.rs:128  index >= front: nothing to read in this segment
NothingToRead(index, front) == index >= front

\* raw.rs:133  index >= capacity: the segment has been read to its end
FullyRead(index, capacity) == index >= capacity

\* mutant of NextTail: the link is read after it has been set to null
NextTailNull(segment) == 0

\* raw.rs:139  the tail after a recycling
NextTail(segment) == segment.next

\* mutant of ResetCursors: the read cursor is left as it was
ResetCursorsKeepBack(segment) == [segment EXCEPT !.front = 0]

\* mutant of ResetCursors: the write cursor is left as it was
ResetCursorsKeepFront(segment) == [segment EXCEPT !.back = 0]

\* mutant of ResetCursors: neither cursor is reset
ResetCursorsNot(segment) == segment

\* raw.rs:134-135  the cursors of a segment read to its end are reset
ResetCursors(segment) == [segment EXCEPT !.back = 0, !.front = 0]

\* mutant of RestoreBack: the read cursor stays advanced past the write cursor
RestoreBackNot(segment) == segment

\* raw.rs:129  back = front: the increment of the read cursor is taken back
RestoreBack(segment) == [segment EXCEPT !.back = segment.front]

\* mutant of ClearNext: the recycled segment keeps its link
ClearNextNot(segment) == segment

\* raw.rs:140  *segment.next.get_mut() = ptr::null_mut()
ClearNext(segment) == [segment EXCEPT !.next = 0]

\* raw.rs:122-146  the loop; res is "none", "some" (with index) or "fault"
RECURSIVE PopLoop(_, _, _, _)
PopLoop(S, hd, tl, fuel) ==
    IF tl = 0 \/ fuel = 0
    THEN [segs |-> S, tail |-> tl, res |-> "fault", index |-> 0,
          exit |-> "fault"]
    ELSE
    LET index == S[tl].back
        S1 == [S EXCEPT ![tl].back = index + 1]
    IN  IF NothingToRead(index, S1[tl].front)
        THEN [segs |-> [S1 EXCEPT ![tl] = RestoreBack(@)], tail |-> tl,
              res |-> "none", index |-> 0, exit |-> "empty"]
        ELSE IF FullyRead(index, S1[tl].capacity)
        THEN LET S2 == [S1 EXCEPT ![tl] = ResetCursors(@)] IN
             IF hd = tl
             THEN [segs |-> S2, tail |-> tl, res |-> "none", index |-> 0,
                   exit |-> "head_reset"]
             ELSE LET newTail == NextTail(S2[tl])
                      S3 == [S2 EXCEPT ![tl] = ClearNext(@)]
                      app == AppendSegment(S3, hd, tl)
                  IN  IF app.diverged
                      THEN [segs |-> app.segs, tail |-> newTail, res |-> "fault",
                            index |-> 0, exit |-> "fault"]
                      ELSE PopLoop(app.segs, hd, newTail, fuel - 1)
        ELSE [segs |-> S1, tail |-> tl, res |-> "some", index |-> index,
              exit |-> "value"]

\* raw.rs:148-149  what ptr::read yields: the slot's value.  Reading a slot
\* whose value has been moved out yields the stale bits or anything else, and
\* reading an uninitialised slot any bit pattern: both are undefined behaviour
ReadSlot(content) ==
    IF content > 0 THEN {content}
    ELSE IF content < 0 THEN {-content, 0}
    ELSE 0..nvals

\* the slot after ptr::read moved its value out
MovedOut(content) == IF content > 0 THEN -content ELSE content

Pop ==
    /\ Alive
    /\ Quiescent
    /\ LET r == PopLoop(segs, head, tail, Len(segs) + 1) IN
       /\ tail' = r.tail
       /\ popExit' = r.exit
       /\ granted' = [s \in 1..Len(segs) |->
              IF r.segs[s].front = 0 THEN <<>> ELSE granted[s]]
       /\ recycles' = [s \in 1..Len(segs) |->
              IF r.segs[s].front = 0 /\ segs[s].front # 0 THEN recycles[s] + 1
              ELSE recycles[s]]
       /\ IF r.res = "some"
          THEN \E v \in ReadSlot(r.segs[r.tail].array[r.index + 1]) :
                  /\ out' = Append(out, v)
                  /\ segs' = [r.segs EXCEPT ![r.tail].array[r.index + 1] = MovedOut(@)]
                  /\ lastPop' = "some"
                  /\ fault' = fault
          ELSE /\ segs' = r.segs
               /\ out' = out
               /\ lastPop' = IF r.res = "none" THEN "none" ELSE "nopop"
               /\ fault' = (r.res = "fault")
    /\ UNCHANGED <<head, pc, val, h, pos, nxt, newseg, ah, nvals, reserved,
                   othersAdvanced, otherLinked, dropped, destructed, freed,
                   raced, pusher,
                   itVars>>

(***************************************************************************)
(* Drop, raw.rs:38-49 and raw.rs:192-204.                                  *)
(***************************************************************************)

\* mutant of DropFrom: the destruction starts at slot 0
DropFromZero(segment) == 0

\* raw.rs:40-43  the indices Segment::drop destructs
DropFrom(segment) == Min(segment.capacity, segment.back)
DropTo(segment) == Min(segment.capacity, segment.front)

\* raw.rs:43-47  the slot contents Segment::drop destructs, in order
SegmentDrop(segment) ==
    [i \in 1..(IF DropTo(segment) > DropFrom(segment)
               THEN DropTo(segment) - DropFrom(segment) ELSE 0) |->
        segment.array[DropFrom(segment) + i]]

\* raw.rs:194-202  the walk from the tail; a segment met twice is freed twice
RECURSIVE DropWalk(_, _, _, _)
DropWalk(S, t, fr, de) ==
    IF t = 0 THEN [freed |-> fr, destructed |-> de, fault |-> FALSE]
    ELSE IF \E i \in 1..Len(fr) : fr[i] = t
    THEN [freed |-> Append(fr, t), destructed |-> de, fault |-> TRUE]
    ELSE DropWalk(S, S[t].next, Append(fr, t), de \o SegmentDrop(S[t]))

Drop ==
    /\ Alive
    /\ Quiescent
    /\ LET r == DropWalk(segs, tail, <<>>, <<>>) IN
       /\ freed' = r.freed
       /\ destructed' = r.destructed
       /\ fault' = r.fault
    /\ dropped' = TRUE
    /\ UNCHANGED <<segs, head, tail, pc, val, h, pos, nxt, newseg, ah, nvals,
                   reserved, granted, out, lastPop, othersAdvanced,
                   otherLinked, recycles, raced, pusher,
                   popExit, itVars>>

(***************************************************************************)
(* RawIter, raw.rs:156-162 and raw.rs:220-246.  The iterator borrows the   *)
(* buffer: no push, pop or drop runs while it lives.                       *)
(***************************************************************************)

IterIdle == itMode = "none"

\* mutant of SliceStart: the slice starts at slot 0
SliceStartZero(segment) == 0

\* raw.rs:232  let start = min(back, capacity)
SliceStart(segment) == Min(segment.back, segment.capacity)

\* raw.rs:233  let end = min(front, capacity)
SliceEnd(segment) == Min(segment.front, segment.capacity)

\* raw.rs:235  &mut segment.array[start..end] panics when start > end
SlicePanics(segment) == SliceStart(segment) > SliceEnd(segment)

\* raw.rs:232-240  the slice of segment s: its place and the slot contents
Slice(S, s) ==
    [seg |-> s, start |-> SliceStart(S[s]), end |-> SliceEnd(S[s]),
     items |-> [i \in 1..(SliceEnd(S[s]) - SliceStart(S[s])) |->
                   S[s].array[SliceStart(S[s]) + i]]]

\* raw.rs:156-162  RawBuffer::iter
IterBegin ==
    /\ Alive
    /\ Quiescent
    /\ IterIdle
    /\ itMode' = "seq"
    /\ itSeg' = tail
    /\ slices' = <<>>
    /\ UNCHANGED <<segs, head, tail, pc, val, h, pos, nxt, newseg, ah, nvals,
                   reserved, granted, out, lastPop, recycles, raced, pusher,
                   othersAdvanced, otherLinked, dropped, destructed, freed,
                   fault, popExit, units, nsplit>>

\* raw.rs:229-245  RawIter::next on a non-null segment
IterNext ==
    /\ Alive
    /\ itMode = "seq"
    /\ itSeg # 0
    /\ IF SlicePanics(segs[itSeg])
       THEN fault' = TRUE /\ UNCHANGED <<slices, itSeg>>
       ELSE /\ slices' = Append(slices, Slice(segs, itSeg))
            /\ itSeg' = segs[itSeg].next
            /\ fault' = fault
    /\ UNCHANGED <<segs, head, tail, pc, val, h, pos, nxt, newseg, ah, nvals,
                   reserved, granted, out, lastPop, recycles, raced, pusher,
                   othersAdvanced, otherLinked, dropped, destructed, freed,
                   popExit, itMode, units, nsplit>>

\* raw.rs:230  RawIter::next on a null segment returns None; the iterator is
\* dropped
IterEnd ==
    /\ Alive
    /\ itMode = "seq"
    /\ itSeg = 0
    /\ itMode' = "none"
    /\ slices' = <<>>
    /\ UNCHANGED <<segs, head, tail, pc, val, h, pos, nxt, newseg, ah, nvals,
                   reserved, granted, out, lastPop, recycles, raced, pusher,
                   othersAdvanced, otherLinked, dropped, destructed, freed,
                   fault, popExit, itSeg, units, nsplit>>

(***************************************************************************)
(* ParRawIter, raw.rs:169-175 and raw.rs:256-321.  The engine (rayon's     *)
(* bridge_unindexed) holds units and, for each, calls split or fold_with.  *)
(***************************************************************************)

\* raw.rs:169-175  RawBuffer::par_iter: one unit, at the tail
ParIterBegin ==
    /\ Alive
    /\ Quiescent
    /\ IterIdle
    /\ itMode' = "par"
    /\ units' = [s \in 1..Len(segs) |-> IF s = tail THEN 1 ELSE 0]
    /\ slices' = <<>>
    /\ nsplit' = 0
    /\ UNCHANGED <<segs, head, tail, pc, val, h, pos, nxt, newseg, ah, nvals,
                   reserved, granted, out, lastPop, recycles, raced, pusher,
                   othersAdvanced, otherLinked, dropped, destructed, freed,
                   fault, popExit, itSeg>>

\* raw.rs:294-311  the units split returns for a unit at segment s: the unit
\* itself and, when s has a successor, a unit at the successor
SplitUnits(U, S, s) ==
    IF S[s].next # 0 THEN [U EXCEPT ![S[s].next] = @ + 1] ELSE U

\* raw.rs:294-311  ParRawIter::split of a unit at segment s
ParSplit(s) ==
    /\ Alive
    /\ itMode = "par"
    /\ units[s] > 0
    /\ nsplit < MaxSplit
    /\ units' = SplitUnits(units, segs, s)
    /\ nsplit' = nsplit + 1
    /\ UNCHANGED <<segs, head, tail, pc, val, h, pos, nxt, newseg, ah, nvals,
                   reserved, granted, out, lastPop, recycles, raced, pusher,
                   othersAdvanced, otherLinked, dropped, destructed, freed,
                   fault, popExit, itMode, itSeg, slices>>

\* raw.rs:278-285, 313-320  ParRawIter::fold_with of a unit at segment s: the
\* folder consumes slice(), which is RawIter::next at s
ParFold(s) ==
    /\ Alive
    /\ itMode = "par"
    /\ units[s] > 0
    /\ units' = [units EXCEPT ![s] = @ - 1]
    /\ IF SlicePanics(segs[s])
       THEN fault' = TRUE /\ UNCHANGED slices
       ELSE slices' = Append(slices, Slice(segs, s)) /\ fault' = fault
    /\ UNCHANGED <<segs, head, tail, pc, val, h, pos, nxt, newseg, ah, nvals,
                   reserved, granted, out, lastPop, recycles, raced, pusher,
                   othersAdvanced, otherLinked, dropped, destructed, freed,
                   popExit, itMode, itSeg, nsplit>>

\* every unit has been executed
ParDone == itMode = "par" /\ \A s \in 1..Len(units) : units[s] = 0

\* the engine has executed every unit; the parallel iterator is dropped
ParEnd ==
    /\ Alive
    /\ ParDone
    /\ itMode' = "none"
    /\ slices' = <<>>
    /\ nsplit' = 0
    /\ UNCHANGED <<segs, head, tail, pc, val, h, pos, nxt, newseg, ah, nvals,
                   reserved, granted, out, lastPop, recycles, raced, pusher,
                   othersAdvanced, otherLinked, dropped, destructed, freed,
                   fault, popExit, itSeg, units>>

(***************************************************************************)
(* Specifications.                                                         *)
(***************************************************************************)

\* producers of Procs push concurrently; pop and drop run between pushes
Next ==
    \/ \E p \in Procs : BeginPush(p, MaxPush)
    \/ \E p \in Procs : PushStep(p)
    \/ Pop
    \/ Drop

Spec == Init /\ [][Next]_vars

\* one producer, one consumer, calls never overlap
NextSeq ==
    \/ \E p \in SeqProcs : BeginPush(p, MaxPushSeq)
    \/ \E p \in SeqProcs : PushStep(p)
    \/ Pop
    \/ Drop

SpecSeq == Init /\ [][NextSeq]_vars

\* producers only, each atomic step weakly fair
NextProd ==
    \/ \E p \in Procs : BeginPush(p, MaxPushProd)
    \/ \E p \in Procs : PushStep(p)

SpecProd == Init /\ [][NextProd]_vars /\ \A p \in Procs : WF_vars(PushStep(p))

\* pushes, pops and drop as in Spec, and the iterators between them
NextIter ==
    \/ IterIdle /\ \E p \in Procs : BeginPush(p, MaxPushIter)
    \/ \E p \in Procs : PushStep(p)
    \/ IterIdle /\ Pop
    \/ IterIdle /\ Drop
    \/ IterBegin
    \/ IterNext
    \/ IterEnd
    \/ ParIterBegin
    \/ \E s \in 1..Len(segs) : ParSplit(s)
    \/ \E s \in 1..Len(segs) : ParFold(s)
    \/ ParEnd

SpecIter == Init /\ [][NextIter]_vars


(***************************************************************************)
(* Helpers of the properties.                                              *)
(***************************************************************************)

InFlight == {p \in Procs : pc[p] # "idle"}

\* number of push calls that have returned
Completed == nvals - Cardinality(InFlight)

NoDuplicates(q) == \A i, j \in 1..Len(q) : i # j => q[i] # q[j]

Range(q) == {q[i] : i \in 1..Len(q)}

\* the segments met from node by following next links, node included
RECURSIVE ReachFrom(_, _, _)
ReachFrom(S, node, seen) ==
    IF node = 0 \/ node \in seen THEN seen
    ELSE ReachFrom(S, S[node].next, seen \cup {node})

Chain(node) == ReachFrom(segs, node, {})

(***************************************************************************)
(* C1: one producer and one consumer whose calls never overlap: the k-th   *)
(* pop that returns a value returns the k-th pushed value.  Under SpecSeq  *)
(* the k-th push call pushes the value k.                                  *)
(***************************************************************************)
C1_Fifo == \A k \in 1..Len(out) : out[k] = k

\* a value is popped from a recycled segment, with three segments allocated
\* (capacities doubled) and values read across all of them
C1_Witness ==
    /\ lastPop = "some"
    /\ recycles[tail] >= 1
    /\ Len(segs) >= 3
    /\ \A s \in 1..Len(segs) : recycles[s] >= 1 \/ s = tail
    /\ Len(out) >= 2 * STARTING_SIZE + 3

(***************************************************************************)
(* C2: pop returns None exactly when every value pushed so far has been    *)
(* popped: right after a pop that returned None the number of values       *)
(* popped equals the number of completed pushes, and a pop never returns   *)
(* a value when there was none left to return.                             *)
(***************************************************************************)
C2_EmptyIffDrained ==
    /\ lastPop = "none" => Len(out) = Completed
    /\ lastPop = "some" => Len(out) <= Completed

\* None after at least three values were pushed and popped, the tail having
\* moved on from the first segment and a segment having been recycled
C2_Witness ==
    /\ lastPop = "none"
    /\ Completed >= 3
    /\ Len(out) = Completed
    /\ tail # 1
    /\ recycles[1] >= 1

(***************************************************************************)
(* C3: after concurrent pushes, a drain (pop until None) has returned      *)
(* every pushed value exactly once: none lost, none duplicated.            *)
(***************************************************************************)
C3_NoLossNoDup ==
    /\ NoDuplicates(out)
    /\ Range(out) \subseteq 1..nvals
    /\ lastPop = "none" => Range(out) = 1..nvals

\* drained after a phase in which two producers appended a successor each to
\* the same full segment
C3_Witness ==
    /\ lastPop = "none"
    /\ raced
    /\ nvals >= 4
    /\ Len(out) = nvals
    /\ Len(segs) >= 3

(***************************************************************************)
(* C4: the values are popped in the order of their in-capacity fetch_add   *)
(* on the write cursor, and so the values of one producer in the order     *)
(* that producer pushed them.                                              *)
(***************************************************************************)
C4_ReservationOrder ==
    /\ Len(out) <= Len(reserved)
    /\ \A i \in 1..Len(out) : out[i] = reserved[i]
    /\ \A i, j \in 1..Len(out) :
          (i < j /\ out[i] \in 1..Len(pusher) /\ out[j] \in 1..Len(pusher)
             /\ pusher[out[i]] = pusher[out[j]]) => out[i] < out[j]

\* everything drained, the reservations having been made in another order
\* than the push calls began
C4_Witness ==
    /\ Len(out) = nvals
    /\ nvals >= 4
    /\ \E i, j \in 1..Len(out) : i < j /\ out[i] > out[j]
    /\ \E i, j \in 1..Len(out) : i # j /\ pusher[out[i]] # pusher[out[j]]

(***************************************************************************)
(* C5: no two fetch_adds on a segment's write cursor return the same       *)
(* index between two resets of the cursor, no two pushes hold the same     *)
(* slot, and the slot a push is about to write holds no unread value.      *)
(***************************************************************************)
C5_UniqueIndex ==
    /\ \A s \in 1..Len(segs) : NoDuplicates(granted[s])
    /\ \A p, q \in Procs :
          (p # q /\ pc[p] = "write" /\ pc[q] = "write")
             => <<h[p], pos[p]>> # <<h[q], pos[q]>>
    /\ \A p \in Procs :
          pc[p] = "write" => segs[h[p]].array[pos[p] + 1] <= 0

\* two producers hold a slot each at once: p a slot of a recycled segment,
\* whose former value was popped, q a slot of a segment whose write cursor
\* has handed out several indices
C5_Witness ==
    \E p, q \in Procs :
        /\ p # q
        /\ pc[p] = "write"
        /\ pc[q] = "write"
        /\ segs[h[p]].array[pos[p] + 1] < 0
        /\ Len(granted[h[q]]) >= 2

(***************************************************************************)
(* C6: dropping the buffer destructs exactly the values pushed and not     *)
(* popped, each once, and no slot that holds a popped value or was never   *)
(* written.                                                                *)
(***************************************************************************)
C6_DropExactlyUnread ==
    dropped =>
        /\ ~fault
        /\ \A i \in 1..Len(destructed) : destructed[i] > 0
        /\ NoDuplicates(destructed)
        /\ Range(destructed) = (1..nvals) \ Range(out)
        /\ Len(destructed) = nvals - Len(out)

\* dropped with values popped and values unread, the unread ones in more
\* than one segment, one of them with its write cursor past its capacity,
\* and a recycled segment in the chain
C6_Witness ==
    /\ dropped
    /\ Len(out) >= 2
    /\ Len(destructed) >= 2
    /\ \E s \in 1..Len(segs) :
          segs[s].front > segs[s].capacity /\ Len(SegmentDrop(segs[s])) >= 1
    /\ \E s \in 1..Len(segs) :
          segs[s].front <= segs[s].capacity /\ Len(SegmentDrop(segs[s])) >= 1
    /\ \E s \in 1..Len(segs) : recycles[s] >= 1

(***************************************************************************)
(* C7: a push allocates a segment only when the head is full and has no    *)
(* successor, and then every segment allocated so far is in the chain from *)
(* the tail (no recycled segment is left unused); in particular, with two  *)
(* segments of which the first was recycled behind the second, no third    *)
(* segment is allocated.                                                   *)
(***************************************************************************)
C7_RecyclingReuses ==
    /\ [][Len(segs') > Len(segs) =>
            \E p \in Procs :
                /\ pc[p] = "alloc"
                /\ h[p] = head
                /\ segs[head].next = 0
                /\ segs[head].front > segs[head].capacity
                /\ Chain(tail) = 1..Len(segs)]_vars
    /\ [][(Len(segs) = 2 /\ recycles[1] >= 1 /\ head = 2 /\ tail = 2)
            => Len(segs') = 2]_vars

\* the first segment was recycled, the second is full, and the push that
\* needed a further segment stored its value in the first; two segments exist
C7_Witness ==
    /\ Len(segs) = 2
    /\ recycles[1] = 1
    /\ tail = 2
    /\ head = 1
    /\ segs[2].front > segs[2].capacity
    /\ segs[1].array[1] > 0

(***************************************************************************)
(* C8 as stated: the first segment has capacity STARTING_SIZE and every    *)
(* later segment twice the capacity of the segment allocated just before   *)
(* it, capped at MAX_SIZE.                                                 *)
(***************************************************************************)
C8_DoublesPrevious ==
    /\ segs[1].capacity = STARTING_SIZE
    /\ \A i \in 2..Len(segs) :
          segs[i].capacity = Min(MAX_SIZE, 2 * segs[i - 1].capacity)

(***************************************************************************)
(* C8 amended: the first segment has capacity STARTING_SIZE; a segment     *)
(* allocated later has capacity min(MAX_SIZE, 2 * the capacity of the head *)
(* segment its push found full); capacities never change and lie between  *)
(* STARTING_SIZE and MAX_SIZE.                                             *)
(***************************************************************************)
C8_Growth ==
    /\ [](/\ segs[1].capacity = STARTING_SIZE
          /\ \A i \in 1..Len(segs) :
                segs[i].capacity >= STARTING_SIZE /\ segs[i].capacity <= MAX_SIZE)
    /\ [][\A p \in Procs :
            (pc[p] = "alloc" /\ pc'[p] # "alloc") =>
                /\ Len(segs') = Len(segs) + 1
                /\ segs'[Len(segs')].capacity =
                       Min(MAX_SIZE, 2 * segs[h[p]].capacity)]_vars
    /\ [][/\ Len(segs') >= Len(segs)
          /\ \A i \in 1..Len(segs) : segs'[i].capacity = segs[i].capacity
          /\ Len(segs') > Len(segs) => \E p \in Procs : pc[p] = "alloc"]_vars

\* two producers have each allocated a segment from the same full head, and
\* the doubling was cut to MAX_SIZE
C8_Witness ==
    /\ raced
    /\ \E i \in 2..Len(segs) :
          /\ i + 1 <= Len(segs)
          /\ segs[i + 1].capacity = segs[i].capacity
          /\ segs[i].capacity = MAX_SIZE
          /\ MAX_SIZE < 2 * segs[i - 1].capacity

(***************************************************************************)
(* C9: with producers only, their steps weakly fair, every push call       *)
(* returns.                                                                *)
(***************************************************************************)
C9_PushCompletes == \A p \in Procs : (pc[p] # "idle") ~> (pc[p] = "idle")

\* all push calls have returned, after a contended append
C9_Witness ==
    /\ Quiescent
    /\ nvals = MaxPushProd
    /\ raced
    /\ Len(segs) >= 3

(***************************************************************************)
(* C10: an iteration of push's loop that reserves no slot ends with this   *)
(* producer advancing head, or with its head compare_and_swap failing      *)
(* because another producer advanced head since the iteration loaded it,   *)
(* or with this producer linking its new segment at the end of the chain;  *)
(* a failed compare_and_swap in append_segment means another thread linked *)
(* a segment since this producer saw the head without successor.           *)
(***************************************************************************)
C10_LockFree ==
    [][\A p \in Procs :
        /\ (pc[p] = "fetch_add" /\ pc'[p] # "fetch_add")
              => pc'[p] \in {"write", "load_next"}
        /\ (pc[p] = "load_next" /\ pc'[p] # "load_next")
              => pc'[p] \in {"cas_head", "alloc"}
        /\ (pc[p] = "cas_head" /\ pc'[p] # "cas_head") =>
              \/ head = h[p] /\ head' = nxt[p] /\ head' # head
              \/ head # h[p] /\ head' = head /\ othersAdvanced[p]
        /\ (pc[p] = "append_cas" /\ pc'[p] # "append_cas") =>
              /\ segs[ah[p]].next = 0
              /\ segs'[ah[p]].next = newseg[p]
              /\ newseg[p] \notin ReachFrom(segs, head, {})
              /\ newseg[p] \in ReachFrom(segs', head', {})
        /\ (pc[p] = "append_cas" /\ pc'[p] = "append_cas" /\ ah'[p] # ah[p])
              => otherLinked[p]]_vars

\* a producer is about to fail its head compare_and_swap, after a
\* compare_and_swap in append_segment has failed
C10_Witness ==
    /\ raced
    /\ \E p \in Procs : pc[p] = "cas_head" /\ head # h[p] /\ othersAdvanced[p]

(***************************************************************************)
(* Helpers for the iterator and chain claims.                              *)
(***************************************************************************)

\* the segments from node along the next links, in order, up to null
RECURSIVE ChainFrom(_, _, _)
ChainFrom(S, node, fuel) ==
    IF node = 0 \/ fuel = 0 THEN <<>>
    ELSE <<node>> \o ChainFrom(S, S[node].next, fuel - 1)

ChainSeq(node) == ChainFrom(segs, node, Len(segs) + 1)

\* position of segment s in sequence q, 0 when absent
IndexOf(q, s) ==
    IF \E i \in 1..Len(q) : q[i] = s
    THEN CHOOSE i \in 1..Len(q) : q[i] = s
    ELSE 0

\* raw.rs:120-150  the slot contents repeated pops return until the first None
RECURSIVE PopAll(_, _, _, _)
PopAll(S, hd, tl, fuel) ==
    IF fuel = 0 THEN <<>>
    ELSE LET r == PopLoop(S, hd, tl, Len(S) + 1) IN
         IF r.res # "some" THEN <<>>
         ELSE <<r.segs[r.tail].array[r.index + 1]>> \o
              PopAll([r.segs EXCEPT ![r.tail].array[r.index + 1] = MovedOut(@)],
                     hd, r.tail, fuel - 1)

\* the slot contents of a sequence of slices, concatenated
RECURSIVE Concat(_)
Concat(q) == IF q = <<>> THEN <<>> ELSE Head(q).items \o Concat(Tail(q))

(***************************************************************************)
(* C11.  A finished sequential iteration has yielded one slice for each    *)
(* segment from the tail to the end of the chain, in chain order, empty    *)
(* slices included; the slice of a segment is                              *)
(* [min(back, capacity), min(front, capacity)) of its array; the slices    *)
(* concatenated are what repeated pops would return at that moment; and    *)
(* taking a slice never panics.                                            *)
(***************************************************************************)
C11_IterSlices ==
    /\ itMode = "seq" => ~fault
    /\ (itMode = "seq" /\ itSeg = 0) =>
          /\ [i \in 1..Len(slices) |-> slices[i].seg] = ChainSeq(tail)
          /\ \A i \in 1..Len(slices) :
                LET g == segs[slices[i].seg] IN
                /\ slices[i].start = Min(g.back, g.capacity)
                /\ slices[i].end = Min(g.front, g.capacity)
                /\ slices[i].items =
                      [k \in 1..(slices[i].end - slices[i].start) |->
                          g.array[slices[i].start + k]]
                /\ \A k \in 1..Len(slices[i].items) : slices[i].items[k] > 0
          /\ Concat(slices) = PopAll(segs, head, tail, nvals + 1)

\* a finished iteration over three segments: the first slice starts past
\* consumed slots, two slices hold values and one is empty
C11_Witness ==
    /\ itMode = "seq"
    /\ itSeg = 0
    /\ Len(slices) >= 3
    /\ slices[1].start > 0
    /\ slices[1].end > slices[1].start
    /\ \E i \in 2..Len(slices) : slices[i].end > slices[i].start
    /\ \E i \in 2..Len(slices) : slices[i].end = slices[i].start

(***************************************************************************)
(* C12.  When the engine has executed every unit of a parallel iteration,  *)
(* whatever splits it made, the executed units have yielded the slice of   *)
(* every segment from the tail to the end of the chain exactly once, each  *)
(* the slice the sequential iterator yields for that segment.              *)
(***************************************************************************)
C12_ParCoversOnce ==
    ParDone =>
        /\ ~fault
        /\ \A s \in Range(ChainSeq(tail)) :
              Cardinality({i \in 1..Len(slices) : slices[i].seg = s}) = 1
        /\ \A i \in 1..Len(slices) :
              /\ slices[i].seg \in Range(ChainSeq(tail))
              /\ slices[i] = Slice(segs, slices[i].seg)

\* C12, first half alone: no segment's slice is yielded by two units
C12_NoneTwice ==
    ParDone =>
        \A s \in 1..Len(segs) :
            Cardinality({i \in 1..Len(slices) : slices[i].seg = s}) <= 1

\* C12, second half alone: no segment of the chain is skipped
C12_NoneSkipped ==
    ParDone =>
        \A s \in Range(ChainSeq(tail)) : \E i \in 1..Len(slices) : slices[i].seg = s

\* the segments strictly between the tail and the head, along the chain
Between ==
    LET chain == ChainSeq(tail) IN
    {chain[i] : i \in 2..(IndexOf(chain, head) - 1)}

\* every slot of the segment holds a value
AllWritten(segment) == \A k \in 1..segment.capacity : segment.array[k] > 0

(***************************************************************************)
(* C13.  Until the buffer is dropped, in every state, also in the middle   *)
(* of concurrent pushes, head and tail are non-null and head is reachable  *)
(* from tail along the next links; and when no push is in progress every   *)
(* segment strictly between tail and head has its write cursor at or past  *)
(* its capacity, a value in every slot and its read cursor at 0.           *)
(***************************************************************************)
C13_ChainInvariant ==
    ~dropped =>
        /\ head # 0
        /\ tail # 0
        /\ head \in Chain(tail)
        /\ Quiescent =>
              \A s \in Between :
                  /\ segs[s].front >= segs[s].capacity
                  /\ AllWritten(segs[s])
                  /\ segs[s].back = 0

\* no push in progress, a recycled segment strictly between tail and head
C13_Witness ==
    /\ ~dropped
    /\ Quiescent
    /\ \E s \in Between : recycles[s] > 0

(***************************************************************************)
(* C14 as stated.  Until the buffer is dropped the tail segment is         *)
(* reachable from the segment created at construction along the next       *)
(* links.                                                                  *)
(***************************************************************************)
C14_TailFromFirst == ~dropped => tail \in Chain(1)

(***************************************************************************)
(* C14, amended.  Until the buffer is dropped the segment created at       *)
(* construction is reachable from the tail; the tail is that segment, and  *)
(* so reachable from it, as long as it has not been recycled.              *)
(***************************************************************************)
C14_FirstFromTail ==
    ~dropped =>
        /\ 1 \in Chain(tail)
        /\ recycles[1] = 0 => tail = 1

\* the first segment has been recycled behind the tail: the tail is no longer
\* reachable from it
C14_Witness ==
    /\ ~dropped
    /\ recycles[1] > 0
    /\ tail # 1
    /\ tail \notin Chain(1)
    /\ 1 \in Chain(tail)

\* the live values held in the slots of segment s
LiveIn(s) == {segs[s].array[k] : k \in 1..segs[s].capacity} \ (-nvals..0)

(***************************************************************************)
(* C15.  When no push is in progress and the buffer has not been dropped,  *)
(* in every segment back <= min(front, capacity); each slot in             *)
(* [back, min(front, capacity)) holds a pushed value that has not been     *)
(* popped and is held by no other slot; each slot below back has been      *)
(* consumed; no slot at or above min(front, capacity) holds a live value;  *)
(* and every value pop has returned came from a written, unconsumed slot:  *)
(* it is a pushed value and was returned once.                             *)
(***************************************************************************)
C15_SlotPartition ==
    /\ ~fault
    /\ \A i \in 1..Len(out) : out[i] \in 1..nvals
    /\ NoDuplicates(out)
    /\ (Quiescent /\ ~dropped) =>
          /\ \A s \in 1..Len(segs) :
                LET g == segs[s]
                    lim == Min(g.front, g.capacity)
                IN  /\ g.back <= lim
                    /\ \A k \in 0..(g.capacity - 1) :
                          /\ (g.back <= k /\ k < lim) =>
                                /\ g.array[k + 1] \in 1..nvals
                                /\ g.array[k + 1] \notin Range(out)
                          /\ k < g.back => g.array[k + 1] < 0
                          /\ k >= lim => g.array[k + 1] <= 0
                    /\ Cardinality(LiveIn(s)) = lim - g.back
          /\ \A s, t \in 1..Len(segs) : s # t => LiveIn(s) \cap LiveIn(t) = {}

\* no push in progress: one segment with consumed slots below back and unread
\* values above, another recycled with a stale value above its write cursor
C15_Witness ==
    /\ Quiescent
    /\ ~dropped
    /\ \E s \in 1..Len(segs) :
          /\ 0 < segs[s].back
          /\ segs[s].back < Min(segs[s].front, segs[s].capacity)
    /\ \E s \in 1..Len(segs) :
          /\ recycles[s] > 0
          /\ segs[s].front < segs[s].capacity
          /\ segs[s].array[segs[s].front + 1] < 0

\* the segments a producer has allocated and not yet linked
Unlinked == {newseg[p] : p \in {q \in Procs : pc[q] \in {"append_load", "append_cas"}}}

\* a step taken while a push is in progress leaves every set next link as it
\* is; a link it sets was null, belongs to a segment reachable from head, and
\* now points to the stepping producer's new segment, which nothing pointed to
\* and whose own link is null
C16_LinkStep ==
    ~Quiescent =>
        \A s \in 1..Len(segs) :
            /\ segs[s].next # 0 => segs'[s].next = segs[s].next
            /\ (segs[s].next = 0 /\ segs'[s].next # 0) =>
                  LET n == segs'[s].next IN
                  /\ \E p \in Procs :
                        pc[p] = "append_cas" /\ newseg[p] = n /\ ah[p] = s
                  /\ \A t \in 1..Len(segs) : segs[t].next # n
                  /\ s \in Chain(head)
                  /\ segs'[n].next = 0

\* every segment has at most one predecessor, the chain from the tail is
\* acyclic and ends in null, and it holds every segment but those a producer
\* is still appending
C16_Linked ==
    ~dropped =>
        /\ \A n \in 1..Len(segs) :
              Cardinality({s \in 1..Len(segs) : segs[s].next = n}) <= 1
        /\ Len(ChainSeq(tail)) <= Len(segs)
        /\ NoDuplicates(ChainSeq(tail))
        /\ (1..Len(segs)) \ Chain(tail) = Unlinked
        /\ Unlinked \cap Chain(tail) = {}

(***************************************************************************)
(* C16.  A producer changes a next link only from null to its own new      *)
(* segment and never changes a link that is set; segments appended         *)
(* concurrently are each linked exactly once, at the end of the chain;     *)
(* none is lost; the chain stays acyclic.                                  *)
(***************************************************************************)
C16_AppendProtocol == [][C16_LinkStep]_vars /\ []C16_Linked

\* two producers appended to the same full segment, one compare_and_swap
\* failed and was retried further on; both segments are in the chain
C16_Witness ==
    /\ raced
    /\ Quiescent
    /\ ~dropped
    /\ Len(segs) >= 3
    /\ Chain(tail) = 1..Len(segs)
    /\ \E s, t \in 1..Len(segs) :
          s # t /\ recycles[s] = 0 /\ recycles[t] = 0 /\ s # 1 /\ t # 1

\* a step of pop: the only steps from a state without a push in progress that
\* neither begin a push nor drop the buffer
PopStep == Quiescent /\ ~dropped /\ ~dropped' /\ pc' = pc

\* pop finds the tail read to its end, with reserved indices beyond, and the
\* tail is not the head
Drained == segs[tail].back >= segs[tail].capacity
              /\ segs[tail].front > segs[tail].back
              /\ tail # head

\* a step that moves the tail is a pop that found the tail drained and not the
\* head; the tail moves to the successor; the old tail has cursors 0, a null
\* link, and is the last segment of the chain, after the head; the segments
\* are the same; the pop returns the next value in reservation order
C17_TailMoves ==
    tail' # tail =>
        LET old == tail
            before == ChainSeq(tail)
            after  == ChainFrom(segs', tail', Len(segs') + 1)
        IN  /\ PopStep
            /\ Drained
            /\ tail' = segs[old].next
            /\ head' = head
            /\ segs'[old].back = 0
            /\ segs'[old].front = 0
            /\ segs'[old].next = 0
            /\ after = Tail(before) \o <<old>>
            /\ IndexOf(after, head') < Len(after)
            /\ Len(segs') = Len(segs)
            /\ \A s \in 1..Len(segs) : segs'[s].capacity = segs[s].capacity
            /\ Range(after) = 1..Len(segs)
            /\ freed' = freed
            /\ lastPop' = "some"
            /\ out' = Append(out, reserved[Len(out) + 1])
            /\ segs'[tail'].back = 1

\* a pop that finds the tail drained and not the head moves the tail
C17_DrainedMoves == (PopStep /\ Drained) => tail' # tail

(***************************************************************************)
(* C17.  A pop that finds the tail segment read to its end, the tail not   *)
(* being the head, moves tail to the successor, resets the drained         *)
(* segment's cursors to 0 and its link to null and re-appends it as the    *)
(* last segment of the chain, behind the head; no segment is allocated or  *)
(* freed; the pop returns the next unread value in FIFO order.             *)
(***************************************************************************)
C17_Recycling == [][C17_TailMoves /\ C17_DrainedMoves]_vars

\* a recycling pop has just returned a value; the recycled segment lies behind
\* a segment that already was behind the head
C17_Witness ==
    /\ popExit = "value"
    /\ lastPop = "some"
    /\ ~dropped
    /\ \E s \in 1..Len(segs) :
          /\ recycles[s] > 0
          /\ segs[s].front = 0
          /\ segs[s].next = 0
          /\ IndexOf(ChainSeq(tail), s) > IndexOf(ChainSeq(tail), head) + 1
          /\ IndexOf(ChainSeq(tail), head) > 0

\* a pop that returns None changes no segment, neither head nor tail, and
\* returns nothing
C18_NoneStep ==
    (PopStep /\ lastPop' = "none") =>
        /\ segs' = segs
        /\ head' = head
        /\ tail' = tail
        /\ out' = out
        /\ Len(out) = nvals

\* a pop with a pushed, unpopped value in the buffer returns the oldest one
C18_ValueStep ==
    (PopStep /\ Len(out) < nvals) =>
        /\ lastPop' = "some"
        /\ out' = Append(out, reserved[Len(out) + 1])

(***************************************************************************)
(* C18.  A pop that returns None leaves the buffer as it was: the cursors  *)
(* of the tail segment and of every other segment, head, tail and every    *)
(* next link are the same after the call as before; so the pop after a     *)
(* later push returns the pushed value.                                    *)
(***************************************************************************)
C18_EmptyPopUnchanged == [][C18_NoneStep /\ C18_ValueStep]_vars

\* a pop has just returned None on a tail that has been read in part and has
\* unwritten slots left
C18_Witness ==
    /\ lastPop = "none"
    /\ popExit = "empty"
    /\ ~dropped
    /\ segs[tail].back > 0
    /\ segs[tail].back = segs[tail].front
    /\ segs[tail].front < segs[tail].capacity

(***************************************************************************)
(* C19.  When no push is in progress, every allocated segment lies on the  *)
(* chain from the tail, exactly once, and the chain ends in null; after    *)
(* drop every allocated segment has been freed exactly once and none       *)
(* twice.                                                                  *)
(***************************************************************************)
C19_TeardownOnce ==
    /\ (Quiescent /\ ~dropped) =>
          /\ Len(ChainSeq(tail)) = Len(segs)
          /\ NoDuplicates(ChainSeq(tail))
          /\ Range(ChainSeq(tail)) = 1..Len(segs)
    /\ dropped =>
          /\ ~fault
          /\ freed = ChainSeq(tail)
          /\ NoDuplicates(freed)
          /\ Range(freed) = 1..Len(segs)

\* the buffer has been dropped after two producers raced to append and a
\* segment was recycled
C19_Witness ==
    /\ dropped
    /\ raced
    /\ Len(freed) >= 3
    /\ \E s \in 1..Len(segs) : recycles[s] > 0

(***************************************************************************)
(* C20.  When no push is in progress: the head's write cursor is at most   *)
(* its capacity; every segment from the tail up to, not including, the     *)
(* head has its write cursor strictly above its capacity; every segment    *)
(* behind the head has both cursors at 0.  A pop that leaves through the   *)
(* empty test does so on the head, and no pop leaves through the branch    *)
(* that resets a drained head.                                             *)
(***************************************************************************)
C20_CursorShape ==
    /\ (Quiescent /\ ~dropped) =>
          LET chain == ChainSeq(tail)
              hi == IndexOf(chain, head)
          IN  /\ hi > 0
              /\ segs[head].front <= segs[head].capacity
              /\ \A i \in 1..(hi - 1) :
                    segs[chain[i]].front > segs[chain[i]].capacity
              /\ \A i \in (hi + 1)..Len(chain) :
                    segs[chain[i]].front = 0 /\ segs[chain[i]].back = 0
    /\ popExit # "head_reset"
    /\ popExit = "empty" => tail = head

\* no push in progress: a full head with a segment before it and a recycled
\* segment behind it
C20_Witness ==
    /\ Quiescent
    /\ ~dropped
    /\ segs[head].front = segs[head].capacity
    /\ IndexOf(ChainSeq(tail), head) >= 2
    /\ IndexOf(ChainSeq(tail), head) < Len(segs)
    /\ recycles[ChainSeq(tail)[Len(segs)]] > 0

=============================================================================
